---- MODULE Spec2Model ----
(***************************************************************************)
(* A model of the kvdb storage engine (src/src/lib.rs): the append-only   *)
(* log data.db as a sequence of bytes, the in-memory index of value       *)
(* pointers, the byte-budgeted LRU cache, the file-size counter, the      *)
(* closed flag, the five locks that guard them, and the operations        *)
(* open/load_index, set, get, remove, close and garbage_collect, cut at   *)
(* every point where a thread can block on a lock.                        *)
(***************************************************************************)
EXTENDS Integers, Sequences, FiniteSets, TLC

\* ------------------------------------------------------------------ bounds

\* The caller threads sharing one engine by reference.
Threads == {1, 2}

\* Keys are i64; the model draws them from a small non-negative set.
Keys == {1, 2}

\* Values are strings, held as their UTF-8 bytes: "", "a", "bb".
Values == {<< >>, <<97>>, <<98, 98>>}

\* Number of set/get/remove calls a single caller issues in one behaviour.
MaxOps == 4

\* Number of set/get/remove calls concurrent callers issue, all together.
MaxConcOps == 2

\* Number of times the engine is closed and opened again.
MaxReopens == 1

\* config.gc_threshold, in bytes (the default is 100 MiB; it is configurable),
\* of the single caller's engine: three records may fit below it.
GcThreshold == 44

\* config.gc_threshold of the engine the concurrent callers share: two
\* records may fit below it.
GcThresholdConc == 36

\* MAX_CACHE_SIZE, in bytes, scaled from 16 MiB so that two one-byte values
\* do not fit together (an entry takes 8 bytes for its key plus its value).
MAX_CACHE_SIZE == 17

\* Decoded integers at or above Huge are all held as Huge: far beyond any
\* file of the model.
Huge == 65536

\* ------------------------------------------------------------- byte codecs

\* write_i64::<LittleEndian> / write_u64::<LittleEndian>: w bytes, least
\* significant first (two's complement for a negative n: \div floors).
RECURSIVE LeBytes(_, _)
LeBytes(n, w) ==
  IF w = 0 THEN << >> ELSE <<n % 256>> \o LeBytes(n \div 256, w - 1)

\* read_u64::<LittleEndian> / read_i64::<LittleEndian> on bytes b, saturating
\* at Huge.
RECURSIVE LeValue(_)
LeValue(b) ==
  IF b = << >> THEN 0
  ELSE LET rest == LeValue(Tail(b))
           v    == Head(b) + 256 * rest
       IN IF rest >= Huge \/ v >= Huge THEN Huge ELSE v

\* OpType as u8
OpSet == 0
OpRemove == 1

\* The bytes set() appends: op tag, key, value length, value.
SetRecord(key, value) ==
  <<OpSet>> \o LeBytes(key, 8) \o LeBytes(Len(value), 8) \o value

\* The bytes remove() appends: op tag, key.
RemoveRecord(key) == <<OpRemove>> \o LeBytes(key, 8)

\* Whether bytes b, from position i (1-based), begin a well-formed UTF-8
\* sequence of n bytes.
Cont(b, i) == i <= Len(b) /\ b[i] >= 128 /\ b[i] <= 191

Utf8Len(b, i) ==
  LET c == b[i] IN
  IF c < 128 THEN 1
  ELSE IF c >= 194 /\ c <= 223 /\ Cont(b, i + 1) THEN 2
  ELSE IF c = 224 /\ Cont(b, i + 1) /\ b[i + 1] >= 160 /\ Cont(b, i + 2) THEN 3
  ELSE IF c = 237 /\ Cont(b, i + 1) /\ b[i + 1] <= 159 /\ Cont(b, i + 2) THEN 3
  ELSE IF c >= 225 /\ c <= 239 /\ c # 237 /\ Cont(b, i + 1) /\ Cont(b, i + 2) THEN 3
  ELSE IF c = 240 /\ Cont(b, i + 1) /\ b[i + 1] >= 144 /\ Cont(b, i + 2) /\ Cont(b, i + 3) THEN 4
  ELSE IF c = 244 /\ Cont(b, i + 1) /\ b[i + 1] <= 143 /\ Cont(b, i + 2) /\ Cont(b, i + 3) THEN 4
  ELSE IF c >= 241 /\ c <= 243 /\ Cont(b, i + 1) /\ Cont(b, i + 2) /\ Cont(b, i + 3) THEN 4
  ELSE 0

\* String::from_utf8_lossy(bytes).to_string(), as the bytes of the String: a
\* well-formed sequence is kept, a byte that begins none becomes U+FFFD
\* (EF BF BD).
RECURSIVE Utf8LossyFrom(_, _)
Utf8LossyFrom(b, i) ==
  IF i > Len(b) THEN << >>
  ELSE LET n == Utf8Len(b, i) IN
       IF n = 0 THEN <<239, 191, 189>> \o Utf8LossyFrom(b, i + 1)
       ELSE SubSeq(b, i, i + n - 1) \o Utf8LossyFrom(b, i + n)

from_utf8_lossy(b) == Utf8LossyFrom(b, 1)

\* ------------------------------------------------------------ result values

\* Result<Option<String>>: Ok(None), Ok(Some(v)), Err(Io), Err(DbClosed); a
\* panic that unwinds out of the call; NoRet while no call has returned.
None == [tag |-> "None", val |-> << >>]
Some(v) == [tag |-> "Some", val |-> v]
ErrIo == [tag |-> "ErrIo", val |-> << >>]
ErrClosed == [tag |-> "ErrClosed", val |-> << >>]
Panicked == [tag |-> "Panic", val |-> << >>]
NoRet == [tag |-> "NoRet", val |-> << >>]

\* ------------------------------------------------------------------- index

\* Option<ValuePos>: Some(ValuePos {offset, size}) or None (removed).
ValuePos(offset, size) == [live |-> TRUE, offset |-> offset, size |-> size]
Tombstone == [live |-> FALSE, offset |-> 0, size |-> 0]

\* MemIndex::new()
EmptyIndex == << >>

\* index.insert(key, entry), on a HashMap held as a function on its keys.
IndexInsert(index, key, entry) ==
  [k \in (DOMAIN index) \cup {key} |-> IF k = key THEN entry ELSE index[k]]

\* -------------------------------------------------------------------- files

\* File ids of the data directory: data.db, temp.db, and files that are
\* unlinked but still open through a handle.
InoIds == 0..(Cardinality(Threads) + 3)
NoIno == -1

\* A closed (or not yet created) File handle.
NoHandle == [ino |-> NoIno, pos |-> 0]

RECURSIVE Zeros(_)
Zeros(n) == IF n <= 0 THEN << >> ELSE <<0>> \o Zeros(n - 1)

\* write_all(data) through a handle at position pos (0-based) of a file
\* holding bytes b: the gap past the end of a truncated file reads as zeros.
WriteAt(b, pos, data) ==
  LET before == IF pos <= Len(b) THEN SubSeq(b, 1, pos) ELSE b \o Zeros(pos - Len(b))
      after  == IF pos + Len(data) < Len(b)
                THEN SubSeq(b, pos + Len(data) + 1, Len(b)) ELSE << >>
  IN before \o data \o after

\* seek(SeekFrom::Start(offset)) then read_exact of size bytes: Ok with the
\* bytes, or UnexpectedEof when the file ends before them.
ReadOk(b, offset, size) == size = 0 \/ offset + size <= Len(b)
ReadAt(b, offset, size) == SubSeq(b, offset + 1, offset + size)

\* ------------------------------------------------------------- load_index

LoadOk(index) == [res |-> "Ok", index |-> index]
LoadErr(kind) == [res |-> kind, index |-> EmptyIndex]

\* The loop of load_index with a slip: a Remove record is passed over, and
\* its key keeps the value pointer of its earlier Set record.
RECURSIVE LoadKeepingRemoved(_, _, _)
LoadKeepingRemoved(b, offset, index) ==
  IF ~(offset < Len(b)) THEN LoadOk(index)
  ELSE LET tag == b[offset + 1] IN
       IF tag \notin {OpSet, OpRemove} THEN LoadErr("InvalidFormat")
       ELSE IF offset + 9 > Len(b) THEN LoadErr("Io")
       ELSE LET key == LeValue(SubSeq(b, offset + 2, offset + 9)) IN
            IF tag = OpSet
            THEN IF offset + 17 > Len(b) THEN LoadErr("Io")
                 ELSE LET value_size == LeValue(SubSeq(b, offset + 10, offset + 17))
                          value_pos  == ValuePos(offset + 1 + 8 + 8, value_size)
                      IN LoadKeepingRemoved(b, offset + 1 + 8 + 8 + value_size,
                                            IndexInsert(index, key, value_pos))
            ELSE LoadKeepingRemoved(b, offset + 1 + 8, index)

\* The while loop of load_index over the bytes b of data.db, from byte offset
\* (0-based) with the index built so far.
RECURSIVE LoadFrom(_, _, _)
LoadFrom(b, offset, index) ==
  IF ~(offset < Len(b)) THEN LoadOk(index)
  ELSE LET tag == b[offset + 1] IN
       IF tag \notin {OpSet, OpRemove} THEN LoadErr("InvalidFormat")
       ELSE IF offset + 9 > Len(b) THEN LoadErr("Io")
       ELSE LET key == LeValue(SubSeq(b, offset + 2, offset + 9)) IN
            IF tag = OpSet
            THEN IF offset + 17 > Len(b) THEN LoadErr("Io")
                 ELSE LET value_size == LeValue(SubSeq(b, offset + 10, offset + 17))
                          value_pos  == ValuePos(offset + 1 + 8 + 8, value_size)
                      IN LoadFrom(b, offset + 1 + 8 + 8 + value_size,
                                  IndexInsert(index, key, value_pos))
            ELSE LoadFrom(b, offset + 1 + 8, IndexInsert(index, key, Tombstone))

load_index(b) == LoadFrom(b, 0, EmptyIndex)

\* -------------------------------------------------------------------- cache

\* LruCache<i64, String> as a sequence of entries, least recently used first.
CacheEntry(key, value) == [key |-> key, val |-> value]

CacheContains(cache, key) == \E i \in 1..Len(cache) : cache[i].key = key

CachePeek(cache, key) ==
  (CHOOSE i \in 1..Len(cache) : cache[i].key = key)

\* cache.pop(&key)
CachePop(cache, key) ==
  LET Other(e) == e.key # key IN SelectSeq(cache, Other)

\* cache.get(&key) on a hit: the entry becomes the most recently used.
CachePromote(cache, key) ==
  CachePop(cache, key) \o <<cache[CachePeek(cache, key)]>>

\* cache.put(key, value)
CachePut(cache, key, value) ==
  CachePop(cache, key) \o <<CacheEntry(key, value)>>

\* size_of::<i64>()
KeyWidth == 8

RECURSIVE CacheBytes(_)
CacheBytes(cache) ==
  IF cache = << >> THEN 0
  ELSE Len(Head(cache).val) + KeyWidth + CacheBytes(Tail(cache))

\* The while loop with pop_mru in place of pop_lru: the most recently used
\* entry goes first.
RECURSIVE EvictNewestFor(_, _)
EvictNewestFor(cache, new_entry_size) ==
  IF CacheBytes(cache) + new_entry_size > MAX_CACHE_SIZE /\ cache # << >>
  THEN EvictNewestFor(SubSeq(cache, 1, Len(cache) - 1), new_entry_size)
  ELSE cache

\* The while loop of manage_cache_size: pop_lru until the new entry fits or
\* the cache is empty.
RECURSIVE EvictFor(_, _)
EvictFor(cache, new_entry_size) ==
  IF CacheBytes(cache) + new_entry_size > MAX_CACHE_SIZE /\ cache # << >>
  THEN EvictFor(Tail(cache), new_entry_size)
  ELSE cache

manage_cache_size(cache, key, value) ==
  EvictFor(CachePop(cache, key), KeyWidth + Len(value))

\* -------------------------------------------------------------------- state

VARIABLES
  inode,          \* the bytes of every file of the data directory, by file id
  data_db,        \* the file that the path data.db names
  temp_db,        \* the file that the path temp.db names, or NoIno
  file,           \* KvDb.file: the file the engine's handle is open on
  index,          \* KvDb.index
  cache,          \* KvDb.cache
  file_size,      \* KvDb.file_size
  closed,         \* KvDb.closed
  gc_threshold,   \* KvDb.config.gc_threshold
  file_lock,      \* the thread holding the Mutex of KvDb.file, or 0
  cache_lock,     \* the thread holding the Mutex of KvDb.cache, or 0
  index_readers,  \* the threads holding a read guard of KvDb.index
  index_writer,   \* the thread holding the write guard of KvDb.index, or 0
  pc,             \* where each thread stands in its call
  op,             \* the call each thread is in: kind, key, value
  loc,            \* the local variables of each thread's call
  ret,            \* what each thread's last call returned
  acq,            \* each thread's last lock acquisition and the locks it held then
  hist,           \* per key, the values its records gave it, in log order
  done_ver,       \* per key, the latest of those whose call has returned
  snap,           \* the result of get for every key when close was last called
  fresh_open,     \* the engine was opened and no call was made since
  last_open,      \* the result of the last KvDb::open
  budget,         \* calls that may still be issued
  reopens,        \* opens after a close or a crash so far
  gc_runs,        \* garbage_collect calls so far
  crashed         \* where each thread stood when the process last crashed

fsvars == <<inode, data_db, temp_db>>
dbvars == <<file, index, cache, file_size, closed>>
config == <<gc_threshold>>
lockvars == <<file_lock, cache_lock, index_readers, index_writer>>
thvars == <<pc, op, loc, ret, acq>>
ghostvars == <<hist, done_ver, snap, fresh_open, last_open, budget, reopens, gc_runs,
               crashed>>
vars == <<fsvars, dbvars, config, lockvars, thvars, ghostvars>>

NoOp == [kind |-> "none", key |-> 0, value |-> << >>]

\* The locals of set, get, remove and garbage_collect, before the call.
LocInit ==
  [caller     |-> "none",     \* which call the running get was made from
   old_value  |-> None,       \* old_value of set and remove
   pos        |-> Tombstone,  \* pos of get; value_pos of set
   value      |-> << >>,      \* value of get
   new_size   |-> 0,          \* new_size of set
   new_index  |-> EmptyIndex, \* new_index of garbage_collect
   new_offset |-> 0,          \* new_offset of garbage_collect
   temp_file  |-> NoHandle,   \* temp_file of garbage_collect
   my_ver     |-> 0,          \* the place in hist of the record this call appended
   start_ver  |-> 0,          \* done_ver of the key when the call began
   prior      |-> None]       \* the key's latest value in hist when the call began

NoAcq == [lock |-> "none", held |-> {}]
NoResult == [kind |-> "none", key |-> 0, res |-> NoRet, prior |-> None, lin |-> TRUE]

\* The locks thread t holds.
Held(t) ==
  (IF file_lock = t THEN {"file"} ELSE {})
  \cup (IF cache_lock = t THEN {"cache"} ELSE {})
  \cup (IF t \in index_readers \/ index_writer = t THEN {"index"} ELSE {})

Acquire(t, lock) == acq' = [acq EXCEPT ![t] = [lock |-> lock, held |-> Held(t)]]

\* The key's current value according to the records written for it.
Ref(k) == IF hist[k] = << >> THEN None ELSE hist[k][Len(hist[k])]

\* The value version j of key k gave it; version 0 is the key never written.
VerVal(k, j) == IF j = 0 THEN None ELSE hist[k][j]

\* What get(k) returns when it runs alone from the current state.
GetView(k) ==
  IF CacheContains(cache, k) THEN Some(cache[CachePeek(cache, k)].val)
  ELSE IF k \notin DOMAIN index THEN None
  ELSE IF ~index[k].live THEN None
  ELSE IF ReadOk(inode[file], index[k].offset, index[k].size)
       THEN Some(from_utf8_lossy(ReadAt(inode[file], index[k].offset, index[k].size)))
       ELSE ErrIo

\* The files still reachable: through a path, the engine's handle, or a
\* temp_file handle; the others are gone.
Sweep(files, refs) == [i \in InoIds |-> IF i \in refs THEN files[i] ELSE << >>]

FreshIno(refs) == CHOOSE i \in InoIds : i \notin refs /\ \A j \in InoIds : j < i => j \in refs

TempRefs(l) == {l[u].temp_file.ino : u \in Threads}

\* The bytes of a log to which the Set calls of writes (a sequence of
\* key, value pairs) were appended in turn.
RECURSIVE LogOf(_)
LogOf(writes) ==
  IF writes = << >> THEN << >>
  ELSE SetRecord(Head(writes).key, Head(writes).val) \o LogOf(Tail(writes))

\* The values those calls gave key k, in turn.
RECURSIVE HistOf(_, _)
HistOf(writes, k) ==
  IF writes = << >> THEN << >>
  ELSE (IF Head(writes).key = k THEN <<Some(Head(writes).val)>> ELSE << >>)
         \o HistOf(Tail(writes), k)

\* KvDb::open(config) on a directory whose data.db holds the records of
\* writes (none: a new directory): the handle, file_size from the metadata,
\* an empty cache, load_index. calls is the number of calls that may follow.
Opened(calls, threshold, writes) ==
  /\ gc_threshold = threshold
  /\ inode = [i \in InoIds |-> IF i = 0 THEN LogOf(writes) ELSE << >>]
  /\ data_db = 0
  /\ temp_db = NoIno
  /\ file = 0
  /\ index = load_index(LogOf(writes)).index
  /\ cache = << >>
  /\ file_size = Len(LogOf(writes))
  /\ closed = FALSE
  /\ file_lock = 0
  /\ cache_lock = 0
  /\ index_readers = {}
  /\ index_writer = 0
  /\ pc = [t \in Threads |-> "idle"]
  /\ op = [t \in Threads |-> NoOp]
  /\ loc = [t \in Threads |-> LocInit]
  /\ ret = [t \in Threads |-> NoResult]
  /\ acq = [t \in Threads |-> NoAcq]
  /\ hist = [k \in Keys |-> HistOf(writes, k)]
  /\ done_ver = [k \in Keys |-> Len(HistOf(writes, k))]
  /\ snap = [k \in Keys |-> None]
  /\ fresh_open = FALSE
  /\ last_open = "Ok"
  /\ budget = calls
  /\ reopens = 0
  /\ gc_runs = 0
  /\ crashed = [t \in Threads |-> "none"]

\* -------------------------------------------------------------------- calls

\* Whether result r of a get of key k that began at version start is the
\* value of that version or of a later one (a get that fails gives no value).
Observes(k, start, r) ==
  \/ r \in {ErrClosed, ErrIo}
  \/ \E j \in start..Len(hist[k]) : VerVal(k, j) = r

\* The call of thread t returns r to its caller (or unwinds with a panic):
\* every guard and handle of the call is dropped.
Return(t, r) ==
  /\ pc' = [pc EXCEPT ![t] = "idle"]
  /\ op' = [op EXCEPT ![t] = NoOp]
  /\ loc' = [loc EXCEPT ![t] = LocInit]
  /\ ret' = [ret EXCEPT ![t] =
               [kind  |-> op[t].kind,
                key   |-> op[t].key,
                res   |-> r,
                prior |-> loc[t].prior,
                lin   |-> \/ op[t].kind # "get"
                          \/ Observes(op[t].key, loc[t].start_ver, r)]]
  /\ done_ver' = IF loc[t].my_ver > done_ver[op[t].key]
                 THEN [done_ver EXCEPT ![op[t].key] = loc[t].my_ver]
                 ELSE done_ver

\* The return of self.get with a slip in remove: a key that get finds absent
\* is removed all the same, and a Remove record is appended for it.
GetReturnRemovingAbsent(t, r) ==
  IF \/ loc[t].caller = "get"
     \/ r.tag \in {"ErrIo", "ErrClosed"}
  THEN Return(t, r)
  ELSE /\ pc' = [pc EXCEPT ![t] = IF loc[t].caller = "set" THEN "set_file" ELSE "rm_file"]
       /\ loc' = [loc EXCEPT ![t].old_value = r]
       /\ UNCHANGED <<op, ret, done_ver>>

\* self.get(key) returns r inside the call of thread t: to the caller of get,
\* or to set (old_value = self.get(key)?) or remove (match self.get(key)?).
GetReturn(t, r) ==
  IF \/ loc[t].caller = "get"
     \/ r.tag \in {"ErrIo", "ErrClosed"}
     \/ (loc[t].caller = "remove" /\ r = None)
  THEN Return(t, r)
  ELSE /\ pc' = [pc EXCEPT ![t] = IF loc[t].caller = "set" THEN "set_file" ELSE "rm_file"]
       /\ loc' = [loc EXCEPT ![t].old_value = r]
       /\ UNCHANGED <<op, ret, done_ver>>

\* A caller starts set(key, value), get(key) or remove(key) on the engine
\* that open returned.
Invoke(t) ==
  /\ pc[t] = "idle"
  /\ budget > 0
  /\ last_open = "Ok"
  /\ \E kind \in {"set", "get", "remove"}, key \in Keys, value \in Values :
       /\ kind # "set" => value = << >>
       /\ op' = [op EXCEPT ![t] = [kind |-> kind, key |-> key, value |-> value]]
       /\ pc' = [pc EXCEPT ![t] = IF kind = "get" THEN "get_closed" ELSE "op_closed"]
       /\ loc' = [loc EXCEPT ![t] = [LocInit EXCEPT !.caller = kind,
                                                    !.start_ver = done_ver[key],
                                                    !.prior = Ref(key)]]
  /\ ret' = [ret EXCEPT ![t] = NoResult]
  /\ budget' = budget - 1
  /\ fresh_open' = FALSE
  /\ UNCHANGED <<config, crashed, fsvars, dbvars, lockvars, acq, hist, done_ver, snap, last_open,
                 reopens, gc_runs>>

\* set, remove: if *self.closed.read().unwrap() { return Err(DbClosed) }
OpClosed(t) ==
  /\ pc[t] = "op_closed"
  /\ IF closed
     THEN Return(t, ErrClosed)
     ELSE /\ pc' = [pc EXCEPT ![t] = "get_closed"]
          /\ UNCHANGED <<op, loc, ret, done_ver>>
  /\ Acquire(t, "closed")
  /\ UNCHANGED <<config, crashed, fsvars, dbvars, lockvars, hist, snap, fresh_open, last_open,
                 budget, reopens, gc_runs>>

\* The first step of get with a slip: the closed flag is not looked at, and
\* get goes on to the cache.
GetClosedUnchecked(t) ==
  /\ pc[t] = "get_closed"
  /\ pc' = [pc EXCEPT ![t] = "get_cache"]
  /\ Acquire(t, "closed")
  /\ UNCHANGED <<config, crashed, fsvars, dbvars, lockvars, op, loc, ret, done_ver, hist,
                 snap, fresh_open, last_open, budget, reopens, gc_runs>>

\* get: if *self.closed.read().unwrap() { return Err(DbClosed) }
GetClosed(t) ==
  /\ pc[t] = "get_closed"
  /\ IF closed
     THEN GetReturn(t, ErrClosed)
     ELSE /\ pc' = [pc EXCEPT ![t] = "get_cache"]
          /\ UNCHANGED <<op, loc, ret, done_ver>>
  /\ Acquire(t, "closed")
  /\ UNCHANGED <<config, crashed, fsvars, dbvars, lockvars, hist, snap, fresh_open, last_open,
                 budget, reopens, gc_runs>>

\* get: the cache block; a hit promotes the entry and returns its value.
GetCache(t) ==
  /\ pc[t] = "get_cache"
  /\ cache_lock = 0
  /\ IF CacheContains(cache, op[t].key)
     THEN /\ cache' = CachePromote(cache, op[t].key)
          /\ GetReturn(t, Some(cache[CachePeek(cache, op[t].key)].val))
     ELSE /\ pc' = [pc EXCEPT ![t] = "get_index"]
          /\ UNCHANGED <<cache, op, loc, ret, done_ver>>
  /\ Acquire(t, "cache")
  /\ UNCHANGED <<config, crashed, fsvars, file, index, file_size, closed, lockvars, hist, snap,
                 fresh_open, last_open, budget, reopens, gc_runs>>

\* get: let index = self.index.read().unwrap(); match index.get(&key)
GetIndex(t) ==
  /\ pc[t] = "get_index"
  /\ index_writer = 0
  /\ IF op[t].key \in DOMAIN index /\ index[op[t].key].live
     THEN /\ index_readers' = index_readers \cup {t}
          /\ loc' = [loc EXCEPT ![t].pos = index[op[t].key]]
          /\ pc' = [pc EXCEPT ![t] = "get_file"]
          /\ UNCHANGED <<op, ret, done_ver>>
     ELSE /\ GetReturn(t, None)
          /\ UNCHANGED index_readers
  /\ Acquire(t, "index")
  /\ UNCHANGED <<config, crashed, fsvars, dbvars, file_lock, cache_lock, index_writer, hist, snap,
                 fresh_open, last_open, budget, reopens, gc_runs>>

\* get: let mut file = self.file.lock().unwrap(); seek; read_exact;
\* from_utf8_lossy
GetFile(t) ==
  /\ pc[t] = "get_file"
  /\ file_lock = 0
  /\ IF ReadOk(inode[file], loc[t].pos.offset, loc[t].pos.size)
     THEN /\ file_lock' = t
          /\ loc' = [loc EXCEPT ![t].value =
                       from_utf8_lossy(ReadAt(inode[file], loc[t].pos.offset, loc[t].pos.size))]
          /\ pc' = [pc EXCEPT ![t] = "get_put"]
          /\ UNCHANGED <<op, ret, done_ver, index_readers>>
     ELSE /\ GetReturn(t, ErrIo)
          /\ index_readers' = index_readers \ {t}
          /\ UNCHANGED file_lock
  /\ Acquire(t, "file")
  /\ UNCHANGED <<config, crashed, fsvars, dbvars, cache_lock, index_writer, hist, snap,
                 fresh_open, last_open, budget, reopens, gc_runs>>

\* get: let mut cache = self.cache.lock().unwrap(); manage_cache_size;
\* cache.put; Ok(Some(value))
GetPut(t) ==
  /\ pc[t] = "get_put"
  /\ cache_lock = 0
  /\ cache' = CachePut(manage_cache_size(cache, op[t].key, loc[t].value),
                       op[t].key, loc[t].value)
  /\ file_lock' = 0
  /\ index_readers' = index_readers \ {t}
  /\ GetReturn(t, Some(loc[t].value))
  /\ Acquire(t, "cache")
  /\ UNCHANGED <<config, crashed, fsvars, file, index, file_size, closed, cache_lock, index_writer,
                 hist, snap, fresh_open, last_open, budget, reopens, gc_runs>>

\* The append of set without file.write_all(value_bytes): the value is not
\* in the log when the index, the cache and file_size are updated.
SetFileWithoutValue(t) ==
  /\ pc[t] = "set_file"
  /\ file_lock = 0
  /\ file_lock' = t
  /\ inode' = [inode EXCEPT ![file] =
                 @ \o <<OpSet>> \o LeBytes(op[t].key, 8) \o LeBytes(Len(op[t].value), 8)]
  /\ hist' = [hist EXCEPT ![op[t].key] = Append(@, Some(op[t].value))]
  /\ loc' = [loc EXCEPT ![t].my_ver = Len(hist[op[t].key]) + 1]
  /\ pc' = [pc EXCEPT ![t] = "set_size"]
  /\ Acquire(t, "file")
  /\ UNCHANGED <<config, crashed, data_db, temp_db, dbvars, cache_lock, index_readers, index_writer,
                 op, ret, done_ver, snap, fresh_open, last_open, budget, reopens, gc_runs>>

\* set: let mut file = self.file.lock().unwrap(); seek(End(0)); the four
\* writes of the record; flush
SetFile(t) ==
  /\ pc[t] = "set_file"
  /\ file_lock = 0
  /\ file_lock' = t
  /\ inode' = [inode EXCEPT ![file] = @ \o SetRecord(op[t].key, op[t].value)]
  /\ hist' = [hist EXCEPT ![op[t].key] = Append(@, Some(op[t].value))]
  /\ loc' = [loc EXCEPT ![t].my_ver = Len(hist[op[t].key]) + 1]
  /\ pc' = [pc EXCEPT ![t] = "set_size"]
  /\ Acquire(t, "file")
  /\ UNCHANGED <<config, crashed, data_db, temp_db, dbvars, cache_lock, index_readers, index_writer,
                 op, ret, done_ver, snap, fresh_open, last_open, budget, reopens, gc_runs>>

\* set: let offset = *self.file_size.lock().unwrap(); value_pos; new_size;
\* *self.file_size.lock().unwrap() = new_size
SetSize(t) ==
  /\ pc[t] = "set_size"
  /\ LET offset == file_size
         new_size == offset + 1 + 8 + 8 + Len(op[t].value)
     IN /\ loc' = [loc EXCEPT ![t].pos = ValuePos(offset + 1 + 8 + 8, Len(op[t].value)),
                              ![t].new_size = new_size]
        /\ file_size' = new_size
  /\ pc' = [pc EXCEPT ![t] = "set_index"]
  /\ Acquire(t, "file_size")
  /\ UNCHANGED <<config, crashed, fsvars, file, index, cache, closed, lockvars, op, ret, hist,
                 done_ver, snap, fresh_open, last_open, budget, reopens, gc_runs>>

\* set: let mut index = self.index.write().unwrap(); index.insert
SetIndex(t) ==
  /\ pc[t] = "set_index"
  /\ index_writer = 0 /\ index_readers = {}
  /\ index_writer' = t
  /\ index' = IndexInsert(index, op[t].key, loc[t].pos)
  /\ pc' = [pc EXCEPT ![t] = "set_cache"]
  /\ Acquire(t, "index")
  /\ UNCHANGED <<config, crashed, fsvars, file, cache, file_size, closed, file_lock, cache_lock,
                 index_readers, op, loc, ret, hist, done_ver, snap, fresh_open,
                 last_open, budget, reopens, gc_runs>>

\* The last step of set with >= in place of > in the comparison of new_size
\* with gc_threshold.
SetCacheAtThreshold(t) ==
  /\ pc[t] = "set_cache"
  /\ cache_lock = 0
  /\ cache' = CachePut(manage_cache_size(cache, op[t].key, op[t].value),
                       op[t].key, op[t].value)
  /\ file_lock' = 0
  /\ index_writer' = 0
  /\ IF loc[t].new_size >= gc_threshold
     THEN /\ pc' = [pc EXCEPT ![t] = "gc_create"]
          /\ UNCHANGED <<op, loc, ret, done_ver>>
     ELSE Return(t, loc[t].old_value)
  /\ Acquire(t, "cache")
  /\ UNCHANGED <<config, crashed, fsvars, file, index, file_size, closed, cache_lock, index_readers,
                 hist, snap, fresh_open, last_open, budget, reopens, gc_runs>>

\* set: let mut cache = self.cache.lock().unwrap(); manage_cache_size;
\* cache.put; then either drop(file); drop(index); drop(cache) and
\* garbage_collect, or Ok(old_value)
SetCache(t) ==
  /\ pc[t] = "set_cache"
  /\ cache_lock = 0
  /\ cache' = CachePut(manage_cache_size(cache, op[t].key, op[t].value),
                       op[t].key, op[t].value)
  /\ file_lock' = 0
  /\ index_writer' = 0
  /\ IF loc[t].new_size > gc_threshold
     THEN /\ pc' = [pc EXCEPT ![t] = "gc_create"]
          /\ UNCHANGED <<op, loc, ret, done_ver>>
     ELSE Return(t, loc[t].old_value)
  /\ Acquire(t, "cache")
  /\ UNCHANGED <<config, crashed, fsvars, file, index, file_size, closed, cache_lock, index_readers,
                 hist, snap, fresh_open, last_open, budget, reopens, gc_runs>>

\* remove: let mut file = self.file.lock().unwrap(); seek(End(0)); the two
\* writes of the record; flush
RemoveFile(t) ==
  /\ pc[t] = "rm_file"
  /\ file_lock = 0
  /\ file_lock' = t
  /\ inode' = [inode EXCEPT ![file] = @ \o RemoveRecord(op[t].key)]
  /\ hist' = [hist EXCEPT ![op[t].key] = Append(@, None)]
  /\ loc' = [loc EXCEPT ![t].my_ver = Len(hist[op[t].key]) + 1]
  /\ pc' = [pc EXCEPT ![t] = "rm_size"]
  /\ Acquire(t, "file")
  /\ UNCHANGED <<config, crashed, data_db, temp_db, dbvars, cache_lock, index_readers, index_writer,
                 op, ret, done_ver, snap, fresh_open, last_open, budget, reopens, gc_runs>>

\* remove: let offset = *self.file_size.lock().unwrap();
\* *self.file_size.lock().unwrap() = offset + 1 + 8
RemoveSize(t) ==
  /\ pc[t] = "rm_size"
  /\ file_size' = file_size + 1 + 8
  /\ pc' = [pc EXCEPT ![t] = "rm_index"]
  /\ Acquire(t, "file_size")
  /\ UNCHANGED <<config, crashed, fsvars, file, index, cache, closed, lockvars, op, loc, ret, hist,
                 done_ver, snap, fresh_open, last_open, budget, reopens, gc_runs>>

\* remove: let mut index = self.index.write().unwrap(); index.insert(key, None)
RemoveIndex(t) ==
  /\ pc[t] = "rm_index"
  /\ index_writer = 0 /\ index_readers = {}
  /\ index_writer' = t
  /\ index' = IndexInsert(index, op[t].key, Tombstone)
  /\ pc' = [pc EXCEPT ![t] = "rm_cache"]
  /\ Acquire(t, "index")
  /\ UNCHANGED <<config, crashed, fsvars, file, cache, file_size, closed, file_lock, cache_lock,
                 index_readers, op, loc, ret, hist, done_ver, snap, fresh_open,
                 last_open, budget, reopens, gc_runs>>

\* remove: let mut cache = self.cache.lock().unwrap(); cache.pop(&key)
RemoveCache(t) ==
  /\ pc[t] = "rm_cache"
  /\ cache_lock = 0
  /\ cache_lock' = t
  /\ cache' = CachePop(cache, op[t].key)
  /\ pc' = [pc EXCEPT ![t] = "rm_check"]
  /\ Acquire(t, "cache")
  /\ UNCHANGED <<config, crashed, fsvars, file, index, file_size, closed, file_lock, index_readers,
                 index_writer, op, loc, ret, hist, done_ver, snap, fresh_open,
                 last_open, budget, reopens, gc_runs>>

\* remove: if *self.file_size.lock().unwrap() > self.config.gc_threshold, then
\* either drop(file); drop(index); drop(cache) and garbage_collect, or old_val
RemoveCheck(t) ==
  /\ pc[t] = "rm_check"
  /\ file_lock' = 0
  /\ index_writer' = 0
  /\ cache_lock' = 0
  /\ IF file_size > gc_threshold
     THEN /\ pc' = [pc EXCEPT ![t] = "gc_create"]
          /\ UNCHANGED <<op, loc, ret, done_ver>>
     ELSE Return(t, loc[t].old_value)
  /\ Acquire(t, "file_size")
  /\ UNCHANGED <<config, crashed, fsvars, dbvars, index_readers, hist, snap, fresh_open, last_open,
                 budget, reopens, gc_runs>>

\* ---------------------------------------------------------- garbage_collect

\* garbage_collect: let mut temp_file = File::create(&temp_path)?  (creates
\* temp.db, or truncates the file that path already names)
GcCreate(t) ==
  /\ pc[t] = "gc_create"
  /\ LET refs == {data_db, temp_db, file} \cup TempRefs(loc)
         ino  == IF temp_db = NoIno THEN FreshIno(refs) ELSE temp_db
     IN /\ temp_db' = ino
        /\ inode' = [inode EXCEPT ![ino] = << >>]
        /\ loc' = [loc EXCEPT ![t].temp_file = [ino |-> ino, pos |-> 0]]
  /\ pc' = [pc EXCEPT ![t] = "gc_index"]
  /\ gc_runs' = gc_runs + 1
  /\ UNCHANGED <<config, crashed, data_db, dbvars, lockvars, op, ret, acq, hist, done_ver, snap,
                 fresh_open, last_open, budget, reopens>>

\* garbage_collect: let index = self.index.read().unwrap(); new_index;
\* new_offset (the guard lives until the function returns)
GcIndex(t) ==
  /\ pc[t] = "gc_index"
  /\ index_writer = 0
  /\ index_readers' = index_readers \cup {t}
  /\ loc' = [loc EXCEPT ![t].new_index = EmptyIndex, ![t].new_offset = 0]
  /\ pc' = [pc EXCEPT ![t] = "gc_iter"]
  /\ Acquire(t, "index")
  /\ UNCHANGED <<config, crashed, fsvars, dbvars, file_lock, cache_lock, index_writer, op, ret,
                 hist, done_ver, snap, fresh_open, last_open, budget, reopens, gc_runs>>

\* garbage_collect: one turn of for (&key, &pos_opt) in index.iter(), for a
\* key with a value: lock the file, read the value, write its Set record to
\* temp_file, enter it in new_index. The HashMap yields its keys in any order.
GcCopy(t) ==
  /\ pc[t] = "gc_iter"
  /\ file_lock = 0
  /\ \E key \in (DOMAIN index) \ (DOMAIN loc[t].new_index) :
       /\ index[key].live
       /\ LET pos == index[key]
              tf  == loc[t].temp_file
          IN IF ReadOk(inode[file], pos.offset, pos.size)
             THEN LET value_bytes == ReadAt(inode[file], pos.offset, pos.size)
                      record == <<OpSet>> \o LeBytes(key, 8) \o LeBytes(pos.size, 8)
                                  \o value_bytes
                      new_pos == ValuePos(loc[t].new_offset + 1 + 8 + 8, pos.size)
                  IN /\ inode' = [inode EXCEPT ![tf.ino] = WriteAt(@, tf.pos, record)]
                     /\ loc' = [loc EXCEPT
                          ![t].temp_file = [ino |-> tf.ino, pos |-> tf.pos + Len(record)],
                          ![t].new_index = IndexInsert(@, key, new_pos),
                          ![t].new_offset = @ + 1 + 8 + 8 + pos.size]
                     /\ UNCHANGED <<pc, op, ret, done_ver, index_readers>>
             ELSE /\ Return(t, ErrIo)
                  /\ index_readers' = index_readers \ {t}
                  /\ inode' = Sweep(inode, {data_db, temp_db, file}
                                             \cup TempRefs([loc EXCEPT ![t] = LocInit]))
  /\ Acquire(t, "file")
  /\ UNCHANGED <<config, crashed, data_db, temp_db, dbvars, file_lock, cache_lock, index_writer,
                 hist, snap, fresh_open, last_open, budget, reopens, gc_runs>>

\* garbage_collect: one turn of the loop for a removed key:
\* new_index.insert(key, None)
GcSkip(t) ==
  /\ pc[t] = "gc_iter"
  /\ \E key \in (DOMAIN index) \ (DOMAIN loc[t].new_index) :
       /\ ~index[key].live
       /\ loc' = [loc EXCEPT ![t].new_index = IndexInsert(@, key, Tombstone)]
  /\ UNCHANGED <<config, crashed, fsvars, dbvars, lockvars, pc, op, ret, acq, hist, done_ver, snap,
                 fresh_open, last_open, budget, reopens, gc_runs>>

\* garbage_collect, the loop done: temp_file.flush()?; sync_all()?;
\* std::fs::rename(temp_path, &data_path)?  (an error when temp.db names no file)
GcRename(t) ==
  /\ pc[t] = "gc_iter"
  /\ DOMAIN loc[t].new_index = DOMAIN index
  /\ IF temp_db # NoIno
     THEN /\ data_db' = temp_db
          /\ temp_db' = NoIno
          /\ inode' = Sweep(inode, {temp_db, file} \cup TempRefs(loc))
          /\ pc' = [pc EXCEPT ![t] = "gc_swap"]
          /\ UNCHANGED <<op, loc, ret, done_ver, index_readers>>
     ELSE /\ Return(t, ErrIo)
          /\ index_readers' = index_readers \ {t}
          /\ inode' = Sweep(inode, {data_db, temp_db, file}
                                     \cup TempRefs([loc EXCEPT ![t] = LocInit]))
          /\ UNCHANGED <<data_db, temp_db>>
  /\ UNCHANGED <<config, crashed, dbvars, file_lock, cache_lock, index_writer, acq, hist, snap,
                 fresh_open, last_open, budget, reopens, gc_runs>>

\* garbage_collect: let mut file_lock = self.file.lock().unwrap();
\* *file_lock = OpenOptions::new().read(true).write(true).open(&data_path)?
GcSwap(t) ==
  /\ pc[t] = "gc_swap"
  /\ file_lock = 0
  /\ file_lock' = t
  /\ file' = data_db
  /\ inode' = Sweep(inode, {data_db, temp_db} \cup TempRefs(loc))
  /\ pc' = [pc EXCEPT ![t] = "gc_size"]
  /\ Acquire(t, "file")
  /\ UNCHANGED <<config, crashed, data_db, temp_db, index, cache, file_size, closed, cache_lock,
                 index_readers, index_writer, op, loc, ret, hist, done_ver, snap,
                 fresh_open, last_open, budget, reopens, gc_runs>>

\* garbage_collect: *self.file_size.lock().unwrap() = new_offset; the block
\* ends and file_lock is dropped
GcSize(t) ==
  /\ pc[t] = "gc_size"
  /\ file_size' = loc[t].new_offset
  /\ file_lock' = 0
  /\ pc' = [pc EXCEPT ![t] = "gc_install"]
  /\ Acquire(t, "file_size")
  /\ UNCHANGED <<config, crashed, fsvars, file, index, cache, closed, cache_lock, index_readers,
                 index_writer, op, loc, ret, hist, done_ver, snap, fresh_open,
                 last_open, budget, reopens, gc_runs>>

\* garbage_collect: let mut index_lock = self.index.write().unwrap();
\* *index_lock = new_index; Ok(()).  RwLock::write on a lock whose read guard
\* the calling thread still holds either never returns or panics.
GcInstall(t) ==
  /\ pc[t] = "gc_install"
  /\ IF index_writer = 0 /\ index_readers = {}
     THEN /\ index' = loc[t].new_index
          /\ Return(t, loc[t].old_value)
          /\ inode' = Sweep(inode, {data_db, temp_db, file}
                                     \cup TempRefs([loc EXCEPT ![t] = LocInit]))
          /\ UNCHANGED index_readers
          /\ Acquire(t, "index")
     ELSE /\ t \in index_readers
          /\ UNCHANGED <<index, acq>>
          /\ \/ /\ pc' = [pc EXCEPT ![t] = "hung"]
                /\ UNCHANGED <<inode, index_readers, op, loc, ret, done_ver>>
             \/ /\ Return(t, Panicked)
                /\ index_readers' = index_readers \ {t}
                /\ inode' = Sweep(inode, {data_db, temp_db, file}
                                           \cup TempRefs([loc EXCEPT ![t] = LocInit]))
  /\ UNCHANGED <<config, crashed, data_db, temp_db, file, cache, file_size, closed, file_lock,
                 cache_lock, index_writer, hist, snap, fresh_open, last_open,
                 budget, reopens, gc_runs>>

\* ------------------------------------------------------------ close and open

\* close (also what Drop runs): *self.closed.write().unwrap() = true; it may
\* be called again on a closed engine.
Close(t) ==
  /\ pc[t] = "idle"
  /\ last_open = "Ok"
  /\ reopens < MaxReopens
  /\ closed' = TRUE
  /\ snap' = IF closed THEN snap ELSE [k \in Keys |-> GetView(k)]
  /\ UNCHANGED <<config, crashed, fsvars, file, index, cache, file_size, lockvars, thvars, hist,
                 done_ver, fresh_open, last_open, budget, reopens, gc_runs>>

\* KvDb::open on the same directory, once the closed engine is dropped: a new
\* handle on data.db, file_size from its metadata, an empty cache, and
\* load_index.
Open ==
  /\ closed
  /\ \A t \in Threads : pc[t] = "idle"
  /\ reopens < MaxReopens
  /\ reopens' = reopens + 1
  /\ LET loaded == load_index(inode[data_db])
     IN /\ last_open' = loaded.res
        /\ IF loaded.res = "Ok"
           THEN /\ file' = data_db
                /\ index' = loaded.index
                /\ cache' = << >>
                /\ file_size' = Len(inode[data_db])
                /\ closed' = FALSE
                /\ fresh_open' = TRUE
                /\ inode' = Sweep(inode, {data_db, temp_db})
           ELSE UNCHANGED <<file, index, cache, file_size, closed, fresh_open, inode>>
  /\ UNCHANGED <<config, crashed, data_db, temp_db, lockvars, thvars, hist, done_ver, snap, budget,
                 gc_runs>>

\* The process dies, wherever its threads stand: the engine, its handles and
\* its locks are gone with it; the files the paths data.db and temp.db name
\* keep every byte written to them (each write is a system call, nothing is
\* buffered in the process).
Crash ==
  /\ ~closed
  /\ last_open = "Ok"
  /\ reopens < MaxReopens
  /\ crashed' = pc
  /\ pc' = [t \in Threads |-> "idle"]
  /\ op' = [t \in Threads |-> NoOp]
  /\ loc' = [t \in Threads |-> LocInit]
  /\ ret' = [t \in Threads |-> NoResult]
  /\ acq' = [t \in Threads |-> NoAcq]
  /\ file_lock' = 0
  /\ cache_lock' = 0
  /\ index_readers' = {}
  /\ index_writer' = 0
  /\ file' = data_db
  /\ index' = EmptyIndex
  /\ cache' = << >>
  /\ file_size' = 0
  /\ closed' = TRUE
  /\ fresh_open' = FALSE
  /\ inode' = Sweep(inode, {data_db, temp_db})
  /\ UNCHANGED <<config, data_db, temp_db, hist, done_ver, snap, last_open, budget,
                 reopens, gc_runs>>

\* ------------------------------------------------------------ specifications

\* One step of thread t in a call of set, get or remove.
Call(t) ==
  \/ Invoke(t)
  \/ OpClosed(t)
  \/ GetClosed(t)
  \/ GetCache(t)
  \/ GetIndex(t)
  \/ GetFile(t)
  \/ GetPut(t)
  \/ SetFile(t)
  \/ SetSize(t)
  \/ SetIndex(t)
  \/ SetCache(t)
  \/ RemoveFile(t)
  \/ RemoveSize(t)
  \/ RemoveIndex(t)
  \/ RemoveCache(t)
  \/ RemoveCheck(t)
  \/ GcCreate(t)
  \/ GcIndex(t)
  \/ GcCopy(t)
  \/ GcSkip(t)
  \/ GcRename(t)
  \/ GcSwap(t)
  \/ GcSize(t)
  \/ GcInstall(t)

\* A single caller on a new directory: thread 1 makes every call, closes the
\* engine and opens it again.
Init == Opened(MaxOps, GcThreshold, << >>)

Next == Call(1) \/ Close(1) \/ Open

Spec == Init /\ [][Next]_vars

\* The log a previous run left behind for the concurrent callers: set(1, "a").
EarlierWrites == <<[key |-> 1, val |-> <<97>>]>>

\* Concurrent callers: the engine is opened on the directory of a previous
\* run, and every thread calls set, get and remove on it.
InitConc == Opened(MaxConcOps, GcThresholdConc, EarlierWrites)

NextConc == \E t \in Threads : Call(t)

SpecConc == InitConc /\ [][NextConc]_vars

\* ------------------------------------------------------------------- claims

\* The calls on the engine that have returned a result to their caller.
Returned(t) == pc[t] = "idle" /\ ret[t].kind # "none"

\* C1: after any sequence of set and remove calls, get(k) returns the value of
\* the most recent set of k, or none when k was last removed or never set: a
\* get that returns agrees with the reference map the calls define.
C1_GetAgreesWithReference ==
  \A t \in Threads :
    (Returned(t) /\ ret[t].kind = "get" /\ ret[t].res # ErrClosed)
      => ret[t].res = ret[t].prior

\* C2: set(k, v) and remove(k) each return the value k had just before the
\* call: Some(previous value) when k was live, none when it was never set or
\* is removed.
C2_ReturnsPriorValue ==
  \A t \in Threads :
    (Returned(t) /\ ret[t].kind \in {"set", "remove"}
       /\ ret[t].res \notin {ErrClosed, Panicked})
      => ret[t].res = ret[t].prior

\* C3: when no compaction was triggered, closing the engine and opening a new
\* one on the same directory succeeds and gives, for every key, the result
\* get gave before the close.
C3_ReopenPreservesGets ==
  (gc_runs = 0 /\ reopens > 0)
    => /\ last_open = "Ok"
       /\ fresh_open => \A k \in Keys : GetView(k) = snap[k]

\* C3 happens: an engine was closed and opened again without a compaction, a
\* key with a value and a removed key in its log, and the values are read
\* back through the rebuilt index.
C3_Witness ==
  /\ fresh_open /\ gc_runs = 0 /\ cache = << >>
  /\ \E k \in Keys : snap[k].tag = "Some" /\ Len(snap[k].val) > 0
  /\ \E k \in Keys : snap[k] = None /\ hist[k] # << >>

\* C4: once a call has run a compaction, get gives for every key what it
\* would have given without the compaction: the value of the key's last
\* record.
C4_CompactionPreservesGets ==
  (gc_runs > 0 /\ \A t \in Threads : pc[t] = "idle")
    => \A k \in Keys : GetView(k) = Ref(k)

\* C5: a set or remove of a single caller whose append takes file_size above
\* gc_threshold returns: its compaction gets every lock it asks for, installs
\* the new file and index, and ends without blocking for ever or panicking.
C5_CompactionReturns ==
  \A t \in Threads : pc[t] # "hung" /\ ret[t].res # Panicked

\* The lock on which thread t waits for thread u, when t cannot take its next
\* step until u releases it.
BlockedBy(t, u) ==
  \/ pc[t] \in {"get_cache", "get_put", "set_cache", "rm_cache"} /\ cache_lock = u
  \/ pc[t] \in {"get_file", "set_file", "rm_file", "gc_swap"} /\ file_lock = u
  \/ pc[t] = "gc_iter" /\ file_lock = u
       /\ \A k \in (DOMAIN index) \ (DOMAIN loc[t].new_index) : index[k].live
       /\ DOMAIN index # DOMAIN loc[t].new_index
  \/ pc[t] \in {"get_index", "gc_index"} /\ index_writer = u
  \/ pc[t] \in {"set_index", "rm_index"} /\ (index_writer = u \/ u \in index_readers)

\* C6: with several threads calling get, set and remove and no compaction
\* triggered, no deadlock is reachable: no two threads each wait for a lock
\* the other holds.
C6_NoDeadlock ==
  gc_runs = 0
    => ~ \E t, u \in Threads : t # u /\ BlockedBy(t, u) /\ BlockedBy(u, t)

\* The place of each lock in the order closed-flag, cache, index, file-size,
\* log-file.
LockRank(lock) ==
  CASE lock = "closed" -> 1
    [] lock = "cache" -> 2
    [] lock = "index" -> 3
    [] lock = "file_size" -> 4
    [] lock = "file" -> 5
    [] OTHER -> 6

\* C7: a thread that holds locks only ever takes a lock that comes later in
\* the order closed-flag, cache, index, file-size, log-file than each lock it
\* holds.
C7_LockOrder ==
  \A t \in Threads :
    \A h \in acq[t].held : LockRank(h) < LockRank(acq[t].lock)

\* C8: under every interleaving, a get(k) that begins after a set(k, v) or
\* remove(k) has returned gives the value of that call or of a later call on
\* k, never an older one.
C8_Linearizable ==
  \A t \in Threads : ret[t].kind = "get" => ret[t].lin

\* A thread inside garbage_collect, from the creation of temp.db on.
InGc(t) == pc[t] \in {"gc_index", "gc_iter", "gc_swap", "gc_size", "gc_install", "hung"}

\* Thread u reads or changes the cache, the index or the log file in a step
\* of get, set or remove.
Touches(u) ==
  /\ pc[u] \in {"get_cache", "get_index", "get_file", "get_put", "set_file",
                "set_index", "set_cache", "rm_file", "rm_index", "rm_cache"}
  /\ pc'[u] # pc[u]

\* C9: while a compaction is in progress it has the log, the index and the
\* cache to itself: no other thread's get, set or remove reads or changes
\* them.
C9_CompactionExclusive ==
  [][\A t, u \in Threads : (t # u /\ InGc(t)) => ~Touches(u)]_vars

\* C10: whenever a get can follow the index into the file (no thread holds the
\* file or the write guard of the index), every value pointer of the index
\* lies inside the engine's log file and is the payload of the latest record
\* of its key, as a replay of that file finds it.
C10_PointersValid ==
  (file_lock = 0 /\ index_writer = 0)
    => LET replay == load_index(inode[file])
       IN /\ replay.res = "Ok"
          /\ \A k \in DOMAIN index :
               index[k].live
                 => /\ index[k].offset + index[k].size <= Len(inode[file])
                    /\ k \in DOMAIN replay.index
                    /\ replay.index[k] = index[k]

\* C11: once open, and every set, remove and compaction, has returned (no
\* call is in progress), the file_size counter is the length in bytes of the
\* engine's log file, the file that data.db names.
C11_FileSizeIsLogLength ==
  (\A t \in Threads : pc[t] = "idle")
    => (file = data_db /\ file_size = Len(inode[file]))

\* C12: whenever no thread is inside an update of the file, the index or the
\* cache (none holds the file lock, the write guard of the index or the cache
\* lock), every cache entry (k, v) has a live index entry for k whose value
\* pointer addresses bytes of the log file that decode to v: a get of k that
\* misses the cache returns what a hit returns.
C12_CacheWithinLive ==
  (file_lock = 0 /\ index_writer = 0 /\ cache_lock = 0)
    => \A i \in 1..Len(cache) :
         LET k == cache[i].key IN
         /\ k \in DOMAIN index
         /\ index[k].live
         /\ ReadOk(inode[file], index[k].offset, index[k].size)
         /\ from_utf8_lossy(ReadAt(inode[file], index[k].offset, index[k].size))
              = cache[i].val

\* ------------------------------------------------------------ the cache alone

\* Keys and values of the calls made on the cache alone: three keys, so that
\* an insertion may evict one entry and keep another; values "", "a", "bb"
\* and one of twelve bytes, whose entry is larger than MAX_CACHE_SIZE.
CacheKeys == {1, 2, 3}
CacheValues == {<< >>, <<97>>, <<98, 98>>, <<99, 99, 99, 99, 99, 99, 99, 99, 99, 99, 99, 99>>}

CacheOp(kind, key, value) ==
  op' = [op EXCEPT ![1] = [kind |-> kind, key |-> key, value |-> value]]

\* get, on a hit: cache.get(&key) promotes the entry.
CacheHit ==
  /\ \E key \in CacheKeys :
       /\ CacheContains(cache, key)
       /\ cache' = CachePromote(cache, key)
       /\ CacheOp("hit", key, << >>)
  /\ UNCHANGED <<config, crashed, fsvars, file, index, file_size, closed, lockvars, pc, loc,
                 ret, acq, hist, done_ver, snap, fresh_open, last_open, budget, reopens,
                 gc_runs>>

\* set, and get on a miss: self.manage_cache_size(&mut cache, key, value);
\* cache.put(key, value)
CacheInsert ==
  /\ \E key \in CacheKeys, value \in CacheValues :
       /\ cache' = CachePut(manage_cache_size(cache, key, value), key, value)
       /\ CacheOp("insert", key, value)
  /\ UNCHANGED <<config, crashed, fsvars, file, index, file_size, closed, lockvars, pc, loc,
                 ret, acq, hist, done_ver, snap, fresh_open, last_open, budget, reopens,
                 gc_runs>>

\* remove: cache.pop(&key)
CacheRemove ==
  /\ \E key \in CacheKeys :
       /\ cache' = CachePop(cache, key)
       /\ CacheOp("pop", key, << >>)
  /\ UNCHANGED <<config, crashed, fsvars, file, index, file_size, closed, lockvars, pc, loc,
                 ret, acq, hist, done_ver, snap, fresh_open, last_open, budget, reopens,
                 gc_runs>>

\* The cache of a newly opened engine, under every sequence of the calls
\* that get, set and remove make on it.
InitCache == Opened(0, GcThreshold, << >>)

NextCache == CacheHit \/ CacheInsert \/ CacheRemove

SpecCache == InitCache /\ [][NextCache]_vars

\* C13: after any set, get or remove the cache's occupancy, the sum over its
\* entries of the key width (8 bytes) and the value length, is at most
\* MAX_CACHE_SIZE, whatever the length of the values.
C13_CacheWithinBudget == CacheBytes(cache) <= MAX_CACHE_SIZE

\* C14: remove(k) on an open engine, for a key k that is removed or was never
\* set, changes neither the log, nor file_size, nor the index at any of its
\* steps (a missing key gets no tombstone), and returns none.
C14_RemoveOfAbsentIsNoOp ==
  [][\A t \in Threads :
       (op[t].kind = "remove" /\ loc[t].prior = None /\ pc[t] # "idle" /\ ~closed)
         => /\ UNCHANGED <<inode, file_size, index>>
            /\ pc'[t] = "idle" => ret'[t].res = None]_vars

\* C14 happens: a remove of a key whose latest record is a Remove (the index
\* holds its tombstone) has returned none.
C14_Witness ==
  \E t \in Threads :
    /\ Returned(t) /\ ret[t].kind = "remove" /\ ret[t].res = None
    /\ hist[ret[t].key] # << >> /\ Ref(ret[t].key) = None
    /\ ret[t].key \in DOMAIN index /\ ~index[ret[t].key].live
    /\ ~closed

\* C15: once close has returned, the engine stays closed (a second close
\* succeeds and changes nothing), every step of a set, get or remove started
\* afterwards leaves the log, the index, the cache and file_size unchanged,
\* and the call returns Err(DbClosed). (A step that opens a new engine on the
\* directory is a step of that new engine.)
C15_ClosedIsTerminal ==
  [][(closed /\ reopens' = reopens)
       => /\ closed'
          /\ UNCHANGED <<inode, file, index, cache, file_size>>
          /\ \A t \in Threads :
               (pc[t] # "idle" /\ pc'[t] = "idle") => ret'[t].res = ErrClosed]_vars

\* C15 happens: on a closed engine that holds a value, a set and a get have
\* been called and have returned.
C15_Witness ==
  /\ closed /\ last_open = "Ok" /\ budget = 0
  /\ \E k \in Keys : Ref(k) # None /\ k \in DOMAIN index
  /\ Returned(1) /\ ret[1].res = ErrClosed /\ ret[1].kind = "get"

\* The length of a log holding one Set record for each key of keys with its
\* latest value.
RECURSIVE LiveLogLen(_)
LiveLogLen(keys) ==
  IF keys = {} THEN 0
  ELSE LET k == CHOOSE x \in keys : TRUE
       IN 1 + 8 + 8 + Len(Ref(k).val) + LiveLogLen(keys \ {k})

\* The state a completed compaction leaves: the log file holds exactly one
\* Set record for each live key, with the key's latest value, and nothing
\* else; the index maps each live key to the payload of that record and keeps
\* a tombstone for each removed key; file_size is the length of the file.
CompactedLog ==
  LET live == {k \in Keys : Ref(k) # None}
      replay == load_index(inode[file])
  IN /\ file = data_db
     /\ replay.res = "Ok"
     /\ DOMAIN replay.index = live
     /\ Len(inode[file]) = LiveLogLen(live)
     /\ \A k \in live :
          /\ replay.index[k].live
          /\ ReadAt(inode[file], replay.index[k].offset, replay.index[k].size) = Ref(k).val

CompactedIndex ==
  LET replay == load_index(inode[file])
  IN \A k \in Keys :
       /\ Ref(k) # None => (k \in DOMAIN index /\ k \in DOMAIN replay.index
                             /\ index[k] = replay.index[k])
       /\ (Ref(k) = None /\ hist[k] # << >>) => (k \in DOMAIN index /\ ~index[k].live)

\* C16: when a call's compaction ends, the log file holds exactly one Set
\* record per live key with its latest value and no Remove or superseded
\* record, the installed index maps each live key to the payload of its new
\* record and keeps every removed key as a tombstone, and file_size is the
\* length of the rewritten file.
C16_CompactionResult ==
  [][\A t \in Threads :
       (pc[t] = "gc_install" /\ pc'[t] = "idle")
         => (CompactedLog /\ CompactedIndex /\ file_size = Len(inode[file]))']_vars

\* ------------------------------------------------------------------ crashes

\* Number of set/get/remove calls a single caller issues in a behaviour in
\* which the process may crash.
MaxCrashOps == 4

\* A single caller on a new directory; the process may crash at any step,
\* and the engine is then opened again on the directory.
InitCrash == Opened(MaxCrashOps, GcThreshold, << >>)

NextCrash == Call(1) \/ Crash \/ Open

SpecCrash == InitCrash /\ [][NextCrash]_vars

\* The process crashed while a thread was inside garbage_collect.
CrashedInGc ==
  \E t \in Threads :
    crashed[t] \in {"gc_index", "gc_iter", "gc_swap", "gc_size", "gc_install", "hung"}

\* The process crashed, at whatever step.
CrashedAnywhere == \E t \in Threads : crashed[t] # "none"

\* The engine opened after the crash gives every key the value of its latest
\* flushed record.
RecoveredAll ==
  /\ last_open = "Ok"
  /\ fresh_open => \A k \in Keys : GetView(k) = Ref(k)

\* C17: when the process crashes at a step of a compaction, before or after
\* the rename, the engine opened next on the directory opens without error
\* and gives for every key the value committed before the compaction: no
\* committed data is lost.
C17_CrashInCompactionKeepsData ==
  (reopens > 0 /\ CrashedInGc) => RecoveredAll

\* C18: when the process crashes at any step after the flush of a set or
\* remove record, also before the index, the cache or file_size are updated,
\* the engine opened next gives for the key of that record the value of that
\* call or of a later call on the key.
C18_FlushedSurvivesCrash ==
  (reopens > 0 /\ CrashedAnywhere) => RecoveredAll

\* ------------------------------------------------------ open on a damaged log

\* A data directory whose data.db holds the bytes b, with no engine opened on
\* it yet.
Unopened(b) ==
  /\ gc_threshold = GcThreshold
  /\ inode = [i \in InoIds |-> IF i = 0 THEN b ELSE << >>]
  /\ data_db = 0
  /\ temp_db = NoIno
  /\ file = 0
  /\ index = EmptyIndex
  /\ cache = << >>
  /\ file_size = 0
  /\ closed = TRUE
  /\ file_lock = 0
  /\ cache_lock = 0
  /\ index_readers = {}
  /\ index_writer = 0
  /\ pc = [t \in Threads |-> "idle"]
  /\ op = [t \in Threads |-> NoOp]
  /\ loc = [t \in Threads |-> LocInit]
  /\ ret = [t \in Threads |-> NoResult]
  /\ acq = [t \in Threads |-> NoAcq]
  /\ hist = [k \in Keys |-> << >>]
  /\ done_ver = [k \in Keys |-> 0]
  /\ snap = [k \in Keys |-> None]
  /\ fresh_open = FALSE
  /\ last_open = "NotOpened"
  /\ budget = 0
  /\ reopens = 0
  /\ gc_runs = 0
  /\ crashed = [t \in Threads |-> "none"]

\* The records set() and remove() write for the keys and values of the model.
Records ==
  {SetRecord(k, v) : k \in Keys, v \in Values} \cup {RemoveRecord(k) : k \in Keys}

\* Logs of whole records only: none, or one.
WholeLogs == {<< >>} \cup Records

\* Logs whose last record was cut after n of its bytes, 0 < n < its length.
TruncatedLogs ==
  UNION {{w \o SubSeq(r, 1, n) : n \in 1..(Len(r) - 1)} : w \in WholeLogs, r \in Records}

\* Op tags that OpType::from_u8 rejects.
BadTags == {2, 255}

\* Logs with a record whose op tag is neither Set nor Remove.
BadTagLogs ==
  {w \o <<g>> \o Tail(r) \o x : w \in WholeLogs, g \in BadTags, r \in Records,
                                x \in WholeLogs}

InitDamaged == \E b \in TruncatedLogs \cup BadTagLogs : Unopened(b)

NextDamaged == Open

SpecDamaged == InitDamaged /\ [][NextDamaged]_vars

\* C19: KvDb::open on a log whose last record is truncated, wherever the cut
\* falls, or that holds an op tag other than 0 and 1, fails with
\* InvalidFormat and never succeeds.
C19_DamagedLogIsInvalidFormat ==
  reopens > 0 => last_open = "InvalidFormat"

\* --------------------------------------------------------- eviction order

\* Whether the call op'[1] just made on the cache left it as a byte-budgeted
\* LRU would: others are the entries of the other keys before the call, in
\* recency order, rest those that stay behind the entry of the key.
LruStep ==
  LET kind   == op'[1].kind
      key    == op'[1].key
      value  == op'[1].value
      S      == KeyWidth + Len(value)
      Other(e) == e.key # key
      others == SelectSeq(cache, Other)
      rest   == SubSeq(cache', 1, Len(cache') - 1)
  IN /\ kind \in {"hit", "insert"} =>
          /\ cache' # << >>
          /\ cache'[Len(cache')].key = key
          /\ \A i \in 1..Len(rest) : rest[i].key # key
     /\ kind = "hit" =>
          /\ rest = others
          /\ \E i \in 1..Len(cache) : cache[i] = cache'[Len(cache')]
     /\ kind = "insert" =>
          /\ cache'[Len(cache')].val = value
          /\ \E n \in 0..Len(others) :
               /\ rest = SubSeq(others, n + 1, Len(others))
               /\ n > 0 => CacheBytes(SubSeq(others, n, Len(others))) + S > MAX_CACHE_SIZE
          /\ rest = << >> \/ CacheBytes(rest) + S <= MAX_CACHE_SIZE
          /\ S > MAX_CACHE_SIZE => Len(cache') = 1

InvokesGc(t) == pc[t] # "gc_create" /\ pc'[t] = "gc_create"

\* Thread t ends, in this step, a set or a remove that appended a record,
\* without calling garbage_collect.
EndsWithoutGc(t) ==
  /\ pc[t] \in {"set_cache", "rm_check"}
  /\ pc'[t] = "idle"

\* C21: garbage_collect is called exactly when a set, or a remove that
\* appended a record, leaves file_size above gc_threshold: by the last step
\* of that call, with its file, index and cache guards dropped; never by a
\* get, never by a remove of a key without a value, and not when file_size
\* equals gc_threshold.
C21_CompactionTrigger ==
  [][\A t \in Threads :
       /\ InvokesGc(t) =>
            /\ op[t].kind \in {"set", "remove"}
            /\ loc[t].my_ver > 0
            /\ pc[t] \in {"set_cache", "rm_check"}
            /\ file_size' > gc_threshold
            /\ Held(t)' = {}
       /\ EndsWithoutGc(t) => file_size' <= gc_threshold]_vars

\* A remove that appended a record calls garbage_collect, holding no guard.
C21_Witness ==
  \E t \in Threads :
    /\ pc[t] = "gc_create"
    /\ op[t].kind = "remove"
    /\ loc[t].my_ver > 0
    /\ file_size > gc_threshold
    /\ Held(t) = {}

\* ----------------------------------------------------- append before update

\* The record the set or remove of thread t writes.
RecordOf(t) ==
  IF op[t].kind = "set" THEN SetRecord(op[t].key, op[t].value)
  ELSE RemoveRecord(op[t].key)

\* The log ends with the whole record of thread t's call, written by it.
Appended(t) ==
  LET b == inode[file]
      r == RecordOf(t)
  IN /\ loc[t].my_ver > 0
     /\ Len(b) >= Len(r)
     /\ SubSeq(b, Len(b) - Len(r) + 1, Len(b)) = r

\* Thread t takes this step.
Stepping(t) == pc'[t] # pc[t] \/ loc'[t] # loc[t]

\* Thread t is in a set or remove, in the part before garbage_collect.
InWrite(t) ==
  /\ op[t].kind \in {"set", "remove"}
  /\ pc[t] \notin {"idle", "hung", "gc_create", "gc_index", "gc_iter", "gc_swap",
                   "gc_size", "gc_install"}

\* The step leaves the cache as the get inside the call of thread t does:
\* every entry was there before, or is the key's with the value get read.
OnlyGetCached(t) ==
  /\ \A i \in 1..Len(cache') :
       \/ cache'[i] = CacheEntry(op[t].key, loc[t].value)
       \/ \E j \in 1..Len(cache) : cache[j] = cache'[i]
  /\ CacheContains(cache, op[t].key) => CacheContains(cache', op[t].key)

\* C22: in every set and remove the record is wholly in the log before the
\* index, the cache or file_size change for it: the steps of the call up to
\* and including the append leave index and file_size as they are and the
\* cache as the call's own get leaves it, and every step that changes one of
\* them finds the whole record at the end of the log.
C22_AppendBeforeUpdate ==
  [][\A t \in Threads :
       (InWrite(t) /\ Stepping(t)) =>
         /\ loc[t].my_ver = 0 =>
              /\ index' = index
              /\ file_size' = file_size
              /\ cache' = cache \/ OnlyGetCached(t)
         /\ (index' # index \/ file_size' # file_size \/ (loc[t].my_ver > 0 /\ cache' # cache))
              => Appended(t)]_vars

\* A set of a value of one byte or more has appended its record and updated
\* file_size, and is about to update the index.
C22_Witness ==
  \E t \in Threads :
    /\ pc[t] = "set_index"
    /\ op[t].value # << >>
    /\ Appended(t)
    /\ file_size = Len(inode[file])
    /\ hist[op[t].key][loc[t].my_ver] = Some(op[t].value)

\* ------------------------------------------------- two removes of one key

\* Both threads have returned from remove(k), the only calls made on the
\* engine since it was opened on a log in which k has a value.
BothRemoved(k) ==
  /\ HistOf(EarlierWrites, k) # << >>
  /\ budget = MaxConcOps - 2
  /\ \A t \in Threads : pc[t] = "idle" /\ ret[t].kind = "remove" /\ ret[t].key = k

\* C23: when two threads call remove(k) on a key with a value, and no set
\* comes between, one Remove record is appended, one caller gets the value
\* the key had and the other gets none.
C23_OneRemoveWins ==
  \A k \in Keys :
    BothRemoved(k) =>
      /\ Len(hist[k]) = Len(HistOf(EarlierWrites, k)) + 1
      /\ Len(inode[file]) = Len(LogOf(EarlierWrites)) + Len(RemoveRecord(k))
      /\ \E t \in Threads :
           /\ ret[t].res = HistOf(EarlierWrites, k)[Len(HistOf(EarlierWrites, k))]
           /\ \A u \in Threads \ {t} : ret[u].res = None

\* ------------------------------------------------------ calls that fail

MaxFailOps == 3

\* The number of bytes of a record in the log when one of its writes fails:
\* none (seek or the tag), the tag, tag and key, or all but the value.
WriteCuts == {0, 1, 9, 17}

\* set, remove: seek or one of the writes of the record returns Err, and ?
\* returns it to the caller; the bytes written before stay in the file.
AppendFails(t) ==
  /\ pc[t] \in {"set_file", "rm_file"}
  /\ file_lock = 0
  /\ \E n \in WriteCuts :
       /\ n < Len(RecordOf(t))
       /\ inode' = [inode EXCEPT ![file] = @ \o SubSeq(RecordOf(t), 1, n)]
  /\ Return(t, ErrIo)
  /\ Acquire(t, "file")
  /\ UNCHANGED <<config, crashed, data_db, temp_db, dbvars, lockvars, hist, snap, fresh_open,
                 last_open, budget, reopens, gc_runs>>

\* garbage_collect: File::create(&temp_path)? returns Err, and
\* self.garbage_collect()? returns it to the caller of set or remove.
GcCreateFails(t) ==
  /\ pc[t] = "gc_create"
  /\ Return(t, ErrIo)
  /\ gc_runs' = gc_runs + 1
  /\ UNCHANGED <<config, crashed, fsvars, dbvars, lockvars, acq, hist, snap, fresh_open,
                 last_open, budget, reopens>>

\* A single caller on a new directory whose file system may fail a write of
\* an append or the creation of temp.db.
InitFail == Opened(MaxFailOps, GcThreshold, << >>)

NextFail == Call(1) \/ AppendFails(1) \/ GcCreateFails(1)

SpecFail == InitFail /\ [][NextFail]_vars

\* C24: a set or remove that returns an error, from its append or from the
\* garbage_collect it called, has no effect: a get of its key gives what the
\* key held before the call.
C24_FailedWriteHasNoEffect ==
  \A t \in Threads :
    (pc[t] = "idle" /\ ret[t].kind \in {"set", "remove"} /\ ret[t].res = ErrIo)
      => GetView(ret[t].key) = ret[t].prior

\* ------------------------------------------------ a short run with close

MaxCloseOps == 3

\* A single caller making a few calls on a new directory, with close and
\* reopen.
InitClose == Opened(MaxCloseOps, GcThreshold, << >>)

NextClose == Call(1) \/ Close(1) \/ Open

SpecClose == InitClose /\ [][NextClose]_vars

====
